---- MODULE Spec2Model ----
(***************************************************************************)
(* SoulMap (src/main.py): per-user profile store, the update/delete        *)
(* directive protocol read from generated text, and the sanitizer.         *)
(*                                                                         *)
(* Text representation.  A Python str is a sequence of tokens.  Every      *)
(* token stands for a fixed literal piece of text:                         *)
(*   "[" "]" ":" "=" "," "/" " "   the ASCII characters themselves         *)
(*   ";"                           ASCII semicolon                         *)
(*   "FW;" "FW," "DUN"             full-width semicolon, full-width comma, *)
(*                                 ideographic enumeration comma           *)
(*   "0".."9"                      decimal digits                          *)
(*   "SUP2"                        superscript two, a digit that is no     *)
(*                                 decimal digit                           *)
(*   "Profile" "Delete"            the marker keywords, in any letter case *)
(*   "nick" "note" ...             one word character each (letter, CJK    *)
(*                                 ideograph or underscore run that never  *)
(*                                 spells a keyword)                       *)
(* The notes field name (beizhu) is <<"note">>, nickname is <<"nick">>, and *)
(* the default allow-list's name with a slash (fear/weakness) is           *)
(* <<"fear", "/", "weak">>.                                                *)
(***************************************************************************)
EXTENDS Integers, Sequences, FiniteSets, TLC

\* ------------------------------------------------------------------ bounds
MaxNotesCfg == 2      \* max_notes_count is configured in 0..MaxNotesCfg
MaxTime == 1          \* the clock (seconds) runs over 0..MaxTime
MaxStored == 3        \* a run is followed while a profile stores at most this many notes
MaxFragments == 3     \* a generated text is made of at most this many fragments

\* ------------------------------------------------------- program constants
NoteMaxLen == 20      \* n.strip()[:20]

\* ------------------------------------------------------------------ tokens
WS == " "
SEMI == ";"
FWSEMI == "FW;"
FWCOMMA == "FW,"
DUN == "DUN"
None == <<>>

NoteSeps == {SEMI, FWSEMI}
TargetSeps == {",", FWCOMMA, SEMI, FWSEMI, DUN}
Digits == {"0", "1", "2", "3", "4", "5", "6", "7", "8", "9"}
\* characters str.isdigit() accepts and int() rejects
OtherDigits == {"SUP2"}
NonWord == {"[", "]", ":", "=", ",", "/", WS, SEMI, FWSEMI, FWCOMMA, DUN}

NOTES == <<"note">>
NICK == <<"nick">>
FEAR == <<"fear", "/", "weak">>
LAST_UPDATED == <<"_last_updated">>

Min(a, b) == IF a < b THEN a ELSE b
Max(a, b) == IF a > b THEN a ELSE b

\* --------------------------------------------------------- str primitives
RECURSIVE LStrip(_)
LStrip(s) == IF s # <<>> /\ Head(s) = WS THEN LStrip(Tail(s)) ELSE s

RECURSIVE RStrip(_)
RStrip(s) ==
    IF s # <<>> /\ s[Len(s)] = WS THEN RStrip(SubSeq(s, 1, Len(s) - 1)) ELSE s

\* str.strip()
Strip(s) == RStrip(LStrip(s))

\* re.split(r'[...]', s): the pieces between separators, empty ones included
RECURSIVE ReSplit(_, _)
ReSplit(s, seps) ==
    IF \A i \in 1..Len(s) : s[i] \notin seps
    THEN <<s>>
    ELSE LET i == CHOOSE j \in 1..Len(s) :
                     s[j] \in seps /\ \A k \in 1..(j - 1) : s[k] \notin seps
         IN <<SubSeq(s, 1, i - 1)>> \o ReSplit(SubSeq(s, i + 1, Len(s)), seps)

\* [n.strip() for n in pieces if n.strip()]
RECURSIVE StripNonEmpty(_)
StripNonEmpty(pieces) ==
    IF pieces = <<>> THEN <<>>
    ELSE IF Strip(Head(pieces)) = <<>> THEN StripNonEmpty(Tail(pieces))
    ELSE <<Strip(Head(pieces))>> \o StripNonEmpty(Tail(pieces))

\* [n.strip() for n in re.split(r'[;FW;]', s) if n.strip()]
SplitNotes(s) == StripNonEmpty(ReSplit(s, NoteSeps))

\* "FW;".join(notes)
RECURSIVE JoinNotes(_)
JoinNotes(notes) ==
    IF notes = <<>> THEN <<>>
    ELSE IF Len(notes) = 1 THEN notes[1]
    ELSE notes[1] \o <<FWSEMI>> \o JoinNotes(Tail(notes))

\* s[:n] for n >= 0
Prefix(s, n) == SubSeq(s, 1, Min(Len(s), n))

\* s[start:] with Python's treatment of a negative start
PySliceFrom(s, start) ==
    LET from == IF start < 0 THEN Max(Len(s) + start, 0) ELSE Min(start, Len(s))
    IN SubSeq(s, from + 1, Len(s))

Contains(seq, x) == \E i \in 1..Len(seq) : seq[i] = x

\* needle in hay (substring test)
IsSubstring(needle, hay) ==
    \E i \in 0..(Len(hay) - Len(needle)) :
        SubSeq(hay, i + 1, i + Len(needle)) = needle

\* str.isdigit()
IsDigit(s) == s # <<>> /\ \A i \in 1..Len(s) : s[i] \in Digits \cup OtherDigits

\* int(s) raises ValueError, for s that passed isdigit()
IntRaises(s) == \E i \in 1..Len(s) : s[i] \notin Digits

DigitVal(c) == CHOOSE n \in 0..9 : ToString(n) = c

\* int(s) for a string of decimal digits
RECURSIVE IntOf(_)
IntOf(s) ==
    IF s = <<>> THEN 0
    ELSE IntOf(SubSeq(s, 1, Len(s) - 1)) * 10 + DigitVal(s[Len(s)])

\* ------------------------------------------------------------ configuration
\* config "allowed_fields": the spec's scenario (nickname, notes) with the name
\* of the default list that holds a slash
allowed_fields == <<NICK, FEAR, NOTES>>

\* event.get_sender_id() and event.unified_msg_origin of the events handled
UserIds == {<<"u">>}
Origins == {<<"g">>}

\* ------------------------------------------------------------------- state
VARIABLES
    max_notes_count,   \* SoulMapManager.max_notes_count (config "max_notes_count")
    session_based,     \* config "session_based"
    user_data,         \* SoulMapManager.user_data when it is a dict: key -> profile
    shape,             \* Python type of SoulMapManager.user_data: "dict", "list", "null"
    disk,              \* user_profiles.json: [kind, doc]
    ret,               \* outcome of the last manager call made by a command
    now,               \* the wall clock, in seconds
    completion_text,   \* resp.completion_text after the last on_llm_resp
    plain_text         \* the Plain segment of the reply chain in flight

vars == <<max_notes_count, session_based, user_data, shape, disk, ret, now,
          completion_text, plain_text>>

\* ---------------------------------------------------------------- profiles
EmptyDict == [f \in {} |-> <<>>]

SetItem(d, k, v) == [g \in DOMAIN d \cup {k} |-> IF g = k THEN v ELSE d[g]]
DelItem(d, k) == [g \in DOMAIN d \ {k} |-> d[g]]

\* datetime.now().strftime("%Y-%m-%d %H:%M:%S")
Timestamp(t) == <<"ts", ToString(t)>>

\* the manager's mutable state, as one value
Manager == [user_data |-> user_data, shape |-> shape, disk |-> disk, ret |-> ret]

\* ----------------------------------------------------------- Storage Map
DiskMissing == [kind |-> "missing", doc |-> EmptyDict]
DiskUnparsable == [kind |-> "unparsable", doc |-> EmptyDict]
DiskList == [kind |-> "list", doc |-> EmptyDict]
DiskNull == [kind |-> "null", doc |-> EmptyDict]
DiskDict(d) == [kind |-> "dict", doc |-> d]

\* _load_data: json.load returns whatever the document holds; only a missing
\* file and a JSONDecodeError/TypeError give {}
LoadShape(d) == IF d.kind \in {"list", "null"} THEN d.kind ELSE "dict"
LoadItems(d) == IF d.kind = "dict" THEN d.doc ELSE EmptyDict

\* _save_data: the whole of user_data overwrites the document
_save_data(m) == [m EXCEPT !.disk = DiskDict(m.user_data)]

\* _get_user_key
_get_user_key(user_id, session_id) ==
    IF session_id # None THEN session_id \o <<"_">> \o user_id ELSE user_id

\* get_user_profile: self.user_data.get(key, {}).copy()
get_user_profile(m, user_id, session_id) ==
    LET key == _get_user_key(user_id, session_id)
    IN IF key \in DOMAIN m.user_data THEN m.user_data[key] ELSE EmptyDict

\* ------------------------------------------------------ Field Merge Policy
\* for note in new_notes: if note not in notes: notes.append(note)
RECURSIVE AppendNew(_, _)
AppendNew(notes, new_notes) ==
    IF new_notes = <<>> THEN notes
    ELSE AppendNew(IF Contains(notes, Head(new_notes)) THEN notes
                   ELSE Append(notes, Head(new_notes)),
                   Tail(new_notes))

\* [n.strip()[:20] for n in re.split(r'[;FW;]', value) if n.strip()]
TruncateAllNone(entries) == entries
TruncateAll(entries) == [i \in 1..Len(entries) |-> Prefix(entries[i], NoteMaxLen)]

\* notes[-self.max_notes_count:]
KeepRecent(notes, n) == PySliceFrom(notes, 0 - n)

\* update_field, lines 69-84: the value stored for the notes field
MergeNotes(existing, value, n) ==
    LET notes == IF existing # <<>> THEN SplitNotes(existing) ELSE <<>>
        new_notes == TruncateAll(SplitNotes(value))
    IN JoinNotes(KeepRecent(AppendNew(notes, new_notes), n))

\* update_field's body once the field is allowed, on a dict
UpdateStoredNoTrim(m, key, field, value, n, t) ==
    LET ud == IF key \in DOMAIN m.user_data THEN m.user_data
              ELSE SetItem(m.user_data, key, EmptyDict)
        existing == IF NOTES \in DOMAIN ud[key] THEN ud[key][NOTES] ELSE <<>>
        stored == IF field = NOTES THEN MergeNotes(existing, value, n) ELSE value
        p == SetItem(SetItem(ud[key], field, stored), LAST_UPDATED, Timestamp(t))
    IN _save_data([m EXCEPT !.user_data = SetItem(ud, key, p), !.ret = "updated"])
UpdateStoredAlone(m, key, field, value, n, t) ==
    LET own == [k \in DOMAIN m.user_data \cap {key} |-> m.user_data[k]]
        ud == IF key \in DOMAIN own THEN own ELSE SetItem(own, key, EmptyDict)
        v == Strip(value)
        existing == IF NOTES \in DOMAIN ud[key] THEN ud[key][NOTES] ELSE <<>>
        stored == IF field = NOTES THEN MergeNotes(existing, v, n) ELSE v
        p == SetItem(SetItem(ud[key], field, stored), LAST_UPDATED, Timestamp(t))
    IN _save_data([m EXCEPT !.user_data = SetItem(ud, key, p), !.ret = "updated"])
UpdateStored(m, key, field, value, n, t) ==
    LET ud == IF key \in DOMAIN m.user_data THEN m.user_data
              ELSE SetItem(m.user_data, key, EmptyDict)
        v == Strip(value)
        existing == IF NOTES \in DOMAIN ud[key] THEN ud[key][NOTES] ELSE <<>>
        stored == IF field = NOTES THEN MergeNotes(existing, v, n) ELSE v
        p == SetItem(SetItem(ud[key], field, stored), LAST_UPDATED, Timestamp(t))
    IN _save_data([m EXCEPT !.user_data = SetItem(ud, key, p), !.ret = "updated"])

UpdateUnchecked(m, user_id, field, value, session_id, n, t) ==
    IF m.shape # "dict" THEN [m EXCEPT !.ret = "raised"]
    ELSE UpdateStored(m, _get_user_key(user_id, session_id), field, value, n, t)

\* update_field(user_id, field, value, session_id); n is self.max_notes_count,
\* t the clock.  On a list, self.user_data[key] = {} raises TypeError; on None,
\* "key not in self.user_data" does.
update_field(m, user_id, field, value, session_id, n, t) ==
    IF ~Contains(allowed_fields, field) THEN [m EXCEPT !.ret = "not_allowed"]
    ELSE IF m.shape # "dict" THEN [m EXCEPT !.ret = "raised"]
    ELSE UpdateStored(m, _get_user_key(user_id, session_id), field, value, n, t)

\* ---------------------------------------------------------- Delete Resolver
\* the profile after notes were reduced to `notes` (lines 111-116, 125-130)
StoreNotesEmpty(p, notes) == SetItem(p, NOTES, JoinNotes(notes))
StoreNotes(p, notes) ==
    IF notes # <<>> THEN SetItem(p, NOTES, JoinNotes(notes)) ELSE DelItem(p, NOTES)

\* notes.pop(idx), idx 0-based and in range
Pop(notes, idx) == SubSeq(notes, 1, idx) \o SubSeq(notes, idx + 2, Len(notes))

\* [n for n in notes if field not in n]
RECURSIVE WithoutMatching(_, _)
WithoutMatching(notes, field) ==
    IF notes = <<>> THEN <<>>
    ELSE IF IsSubstring(field, Head(notes)) THEN WithoutMatching(Tail(notes), field)
    ELSE <<Head(notes)>> \o WithoutMatching(Tail(notes), field)

\* a successful delete: stamp _last_updated, save, report
Deleted(m, key, p, t, msg) ==
    _save_data([m EXCEPT
        !.user_data = SetItem(m.user_data, key, SetItem(p, LAST_UPDATED, Timestamp(t))),
        !.ret = msg])

\* delete_field on a dict that holds the key
DeleteInProfileStampsEarly(m, key, field, t) ==
    LET p == m.user_data[key]
        notes == SplitNotes(p[NOTES])
        idx == IntOf(field) - 1
        new_notes == WithoutMatching(notes, field)
    IN IF field \in DOMAIN p
         THEN Deleted(m, key, DelItem(p, field), t, "deleted_field")
       ELSE IF NOTES \in DOMAIN p /\ IsDigit(field)
         THEN IF IntRaises(field) THEN [m EXCEPT !.ret = "raised"]
              ELSE IF 0 <= idx /\ idx < Len(notes)
              THEN Deleted(m, key, StoreNotes(p, Pop(notes, idx)), t, "deleted_index")
              ELSE Deleted(m, key, p, t, "index_missing")
       ELSE IF NOTES \in DOMAIN p /\ Len(new_notes) < Len(notes)
         THEN Deleted(m, key, StoreNotes(p, new_notes), t, "deleted_fuzzy")
       ELSE [m EXCEPT !.ret = "not_found"]
DeleteInProfile(m, key, field, t) ==
    LET p == m.user_data[key]
        notes == SplitNotes(p[NOTES])
        idx == IntOf(field) - 1
        new_notes == WithoutMatching(notes, field)
    IN IF field \in DOMAIN p
         THEN Deleted(m, key, DelItem(p, field), t, "deleted_field")
       ELSE IF NOTES \in DOMAIN p /\ IsDigit(field)
         THEN IF IntRaises(field) THEN [m EXCEPT !.ret = "raised"]
              ELSE IF 0 <= idx /\ idx < Len(notes)
              THEN Deleted(m, key, StoreNotes(p, Pop(notes, idx)), t, "deleted_index")
              ELSE [m EXCEPT !.ret = "index_missing"]
       ELSE IF NOTES \in DOMAIN p /\ Len(new_notes) < Len(notes)
         THEN Deleted(m, key, StoreNotes(p, new_notes), t, "deleted_fuzzy")
       ELSE [m EXCEPT !.ret = "not_found"]

\* delete_field(user_id, field, session_id).  "key not in self.user_data"
\* raises TypeError on None and is True on a list; int(field) raises ValueError
\* for a digit target that is no decimal number.
delete_field(m, user_id, field, session_id, t) ==
    LET key == _get_user_key(user_id, session_id)
    IN IF m.shape = "null" THEN [m EXCEPT !.ret = "raised"]
       ELSE IF m.shape = "list" \/ key \notin DOMAIN m.user_data
         THEN [m EXCEPT !.ret = "no_profile"]
       ELSE DeleteInProfile(m, key, field, t)

\* clear_profile(user_id, session_id)
clear_profile(m, user_id, session_id) ==
    LET key == _get_user_key(user_id, session_id)
    IN IF m.shape = "null" THEN [m EXCEPT !.ret = "raised"]
       ELSE IF m.shape = "dict" /\ key \in DOMAIN m.user_data
         THEN _save_data([m EXCEPT !.user_data = DelItem(m.user_data, key),
                                   !.ret = "cleared"])
       ELSE [m EXCEPT !.ret = "nothing_to_clear"]

\* --------------------------------------------------------- Directive Parser
KwProfile == <<"Profile">>
KwProfileDelete == <<"Profile", "Delete">>

\* first index >= i that holds no whitespace (Len(s) + 1 when there is none): \s*
RECURSIVE SkipWs(_, _)
SkipWs(s, i) == IF i <= Len(s) /\ s[i] = WS THEN SkipWs(s, i + 1) ELSE i

\* index of the "]" closing a block "[" kw ":" [^\]]* "]" that opens at i, else 0
CloseAt(s, i, kw) ==
    LET c == i + Len(kw) + 1
    IN IF /\ c <= Len(s)
          /\ s[i] = "["
          /\ SubSeq(s, i + 1, c - 1) = kw
          /\ s[c] = ":"
          /\ \E j \in (c + 1)..Len(s) : s[j] = "]"
       THEN CHOOSE j \in (c + 1)..Len(s) :
                s[j] = "]" /\ \A k \in (c + 1)..(j - 1) : s[k] # "]"
       ELSE 0

\* the group of \s*([^\]]+) over a non-empty body: the body without its leading
\* whitespace, or its last character when it is all whitespace
BodyGroup(body) == IF LStrip(body) # <<>> THEN LStrip(body) ELSE <<body[Len(body)]>>

\* re.compile(r"\[<kw>:\s*([^\]]+)\]", re.IGNORECASE).findall(s), scanning from i
RECURSIVE FindBlocks(_, _, _)
FindBlocks(s, i, kw) ==
    IF i > Len(s) THEN <<>>
    ELSE LET close == CloseAt(s, i, kw)
             body == SubSeq(s, i + Len(kw) + 2, close - 1)
         IN IF close > 0 /\ body # <<>>
            THEN <<BodyGroup(body)>> \o FindBlocks(s, close + 1, kw)
            ELSE FindBlocks(s, i + 1, kw)

\* profile_pattern.findall, delete_pattern.findall
profile_pattern(s) == FindBlocks(s, 1, KwProfile)
delete_pattern(s) == FindBlocks(s, 1, KwProfileDelete)

\* last index of the run of word characters that starts at i
RECURSIVE WordEnd(_, _)
WordEnd(s, i) ==
    IF i + 1 <= Len(s) /\ s[i + 1] \notin NonWord THEN WordEnd(s, i + 1) ELSE i

\* last index of the run of characters other than "," and "]" that starts at i
RECURSIVE ValueEnd(_, _)
ValueEnd(s, i) ==
    IF i + 1 <= Len(s) /\ s[i + 1] \notin {",", "]"} THEN ValueEnd(s, i + 1) ELSE i

\* re.findall(r'([\w\u4e00-\u9fff]+)\s*=\s*([^,\]]+)', s), scanning from i
RECURSIVE FindPairs(_, _)
FindPairs(s, i) ==
    IF i > Len(s) THEN <<>>
    ELSE IF s[i] \in NonWord THEN FindPairs(s, i + 1)
    ELSE LET e == WordEnd(s, i)
             eq == SkipWs(s, e + 1)
             k == SkipWs(s, eq + 1)
             \* \s* gives back one whitespace when nothing else can be the value
             from == IF k <= Len(s) /\ s[k] \notin {",", "]"} THEN k
                     ELSE IF k > eq + 1 THEN k - 1 ELSE 0
             to == ValueEnd(s, from)
         IN IF eq <= Len(s) /\ s[eq] = "=" /\ from > 0
            THEN <<[field |-> SubSeq(s, i, e), value |-> SubSeq(s, from, to)]>>
                 \o FindPairs(s, to + 1)
            ELSE FindPairs(s, i + 1)

\* -------------------------------------------------------------- Sanitizer
\* block_pattern.sub('', s), scanning from i:
\* r"\s*\[(?:Profile|ProfileDelete):[^\]]*\]\s*"
RECURSIVE BlockSub(_, _)
BlockSub(s, i) ==
    IF i > Len(s) THEN <<>>
    ELSE LET open == SkipWs(s, i)
             c1 == CloseAt(s, open, KwProfile)
             c2 == CloseAt(s, open, KwProfileDelete)
             close == IF open > Len(s) THEN 0 ELSE IF c1 > 0 THEN c1 ELSE c2
         IN IF close > 0 THEN BlockSub(s, SkipWs(s, close + 1))
            ELSE <<s[i]>> \o BlockSub(s, i + 1)

\* block_pattern.sub('', text).strip()
CleanOnce(s) == Strip(BlockSub(s, 1))

\* ------------------------------------------------------------- on_llm_resp
\* the update_field calls of one update block, in order (lines 300-305)
RECURSIVE UpdateOps(_)
UpdateOps(pairs) ==
    IF pairs = <<>> THEN <<>>
    ELSE <<[op |-> "update", field |-> Strip(Head(pairs).field),
            value |-> Strip(Head(pairs).value)]>> \o UpdateOps(Tail(pairs))

\* the update_field calls of all update blocks (lines 295-305)
RECURSIVE AllUpdateOps(_)
AllUpdateOps(matches) ==
    IF matches = <<>> THEN <<>>
    ELSE UpdateOps(FindPairs(Head(matches), 1)) \o AllUpdateOps(Tail(matches))

\* [f for f in fields if f.isdigit()] when want, else [f ... if not f.isdigit()]
RECURSIVE SelectDigit(_, _)
SelectDigit(fields, want) ==
    IF fields = <<>> THEN <<>>
    ELSE IF IsDigit(Head(fields)) = want
         THEN <<Head(fields)>> \o SelectDigit(Tail(fields), want)
    ELSE SelectDigit(Tail(fields), want)

\* sorted(fields, key=int, reverse=True): stable, equal keys keep their order
RECURSIVE InsertDesc(_, _)
InsertDesc(sorted, f) ==
    IF sorted = <<>> THEN <<f>>
    ELSE IF IntOf(Head(sorted)) >= IntOf(f)
         THEN <<Head(sorted)>> \o InsertDesc(Tail(sorted), f)
    ELSE <<f>> \o sorted

RECURSIVE SortDesc(_, _)
SortDesc(sorted, fields) ==
    IF fields = <<>> THEN sorted
    ELSE SortDesc(InsertDesc(sorted, Head(fields)), Tail(fields))

\* the order in which one delete block's targets are deleted (lines 314-322)
DeleteOrder(match) ==
    LET fields == StripNonEmpty(ReSplit(match, TargetSeps))
        digit_fields == SortDesc(<<>>, SelectDigit(fields, TRUE))
        other_fields == SelectDigit(fields, FALSE)
    IN other_fields \o digit_fields

RECURSIVE DeleteOps(_)
DeleteOps(fields) ==
    IF fields = <<>> THEN <<>>
    ELSE <<[op |-> "delete", field |-> Head(fields), value |-> <<>>]>>
         \o DeleteOps(Tail(fields))

\* one delete block: sorted(digit targets, key=int) raises ValueError before any
\* target of the block is deleted when int() rejects one of them
BlockDeleteOps(match) ==
    LET fields == StripNonEmpty(ReSplit(match, TargetSeps))
    IN IF \E i \in 1..Len(fields) : IsDigit(fields[i]) /\ IntRaises(fields[i])
       THEN <<[op |-> "raise", field |-> <<>>, value |-> <<>>]>>
       ELSE DeleteOps(DeleteOrder(match))

\* the delete_field calls of all delete blocks (lines 312-323)
RECURSIVE AllDeleteOps(_)
AllDeleteOps(matches) ==
    IF matches = <<>> THEN <<>>
    ELSE BlockDeleteOps(Head(matches)) \o AllDeleteOps(Tail(matches))

\* every manager call on_llm_resp makes for a text: all updates, then all deletes
HandlerOps(text) ==
    AllUpdateOps(profile_pattern(text)) \o AllDeleteOps(delete_pattern(text))

\* the calls made one after the other; an exception ends the handler
RECURSIVE ApplyOps(_, _, _, _, _, _)
ApplyOps(m, user_id, session_id, ops, n, t) ==
    IF ops = <<>> THEN m
    ELSE LET o == Head(ops)
             m1 == IF o.op = "raise" THEN [m EXCEPT !.ret = "raised"]
                   ELSE IF o.op = "update"
                   THEN update_field(m, user_id, o.field, o.value, session_id, n, t)
                   ELSE delete_field(m, user_id, o.field, session_id, t)
         IN IF m1.ret = "raised" THEN m1
            ELSE ApplyOps(m1, user_id, session_id, Tail(ops), n, t)

\* ------------------------------------------------------------------ inputs
MOOD == <<"mood">>     \* a field name outside the allow-list

\* "a", then 19 spaces, then "b": 21 characters
LongNote == <<"a">> \o [i \in 1..(NoteMaxLen - 1) |-> WS] \o <<"b">>

PlainValues == {<<WS, "x", WS>>, <<"y">>}
NoteValues == {<<"a">>, <<WS, "b", WS>>, <<"a", SEMI, "b">>, <<"c">>, LongNote, <<>>}
FieldInputs == {NICK, NOTES, MOOD}
ValuesFor(field) == IF field = NOTES THEN NoteValues ELSE PlainValues

\* targets of the delete command: field names, the note indices "1".."MaxStored",
\* and a fragment of a note
DeleteTargets == {NICK, NOTES, LAST_UPDATED, <<"a">>}
                 \cup {<<ToString(i)>> : i \in 1..MaxStored}

Block(kw, body) == <<"[">> \o kw \o <<":">> \o body \o <<"]">>

\* the texts of the directive protocol; each is all directive and cleans to ""
\* "[Profile: nick=x, note=a;b]" with the full-width semicolon
TextScenario ==
    Block(KwProfile, <<WS, "nick", "=", "x", ",", WS, "note", "=", "a", FWSEMI, "b">>)
\* "[ProfileDelete: a, 2]", "[ProfileDelete: 2,nick,1]", "[ProfileDelete: 1, 2]"
TextDeleteFuzzyIndex == Block(KwProfileDelete, <<WS, "a", ",", WS, "2">>)
TextDeleteMixed == Block(KwProfileDelete, <<WS, "2", ",", "nick", ",", "1">>)
TextDeleteAscending == Block(KwProfileDelete, <<WS, "1", ",", WS, "2">>)

Texts == {TextScenario, TextDeleteFuzzyIndex, TextDeleteMixed, TextDeleteAscending}

\* "[ProfileDelete: nick][Profile: nick=x]": a delete block, then an update block
TextDeleteThenUpdate ==
    Block(KwProfileDelete, <<WS, "nick">>) \o Block(KwProfile, <<WS, "nick", "=", "x">>)

\* "[Profile: f=v]" for an allowed field f other than notes
DirectiveFor(f, v) == Block(KwProfile, <<WS>> \o f \o <<"=">> \o v)
SettableFields == {allowed_fields[i] : i \in 1..Len(allowed_fields)} \ {NOTES}
DirectiveValues == {<<"y", WS>>}
DirectiveTexts == {DirectiveFor(f, v) : f \in SettableFields, v \in DirectiveValues}

\* texts of several blocks and of one update block
ProtocolTexts == {TextScenario, TextDeleteThenUpdate, TextDeleteMixed} \cup DirectiveTexts

\* malformed input: "[ProfileDelete: SUP2]" (a target that is a superscript
\* two), "[Profile: nick=x" (no closing bracket), "[Profile:]" (empty body),
\* "[ProfileDelete: 9]" (no such note)
TextDeleteSuperscript == Block(KwProfileDelete, <<WS, "SUP2">>)
TextUnbalanced == <<"[", "Profile", ":", WS, "nick", "=", "x">>
TextEmptyBody == Block(KwProfile, <<>>)
TextDeleteNoSuchNote == Block(KwProfileDelete, <<WS, "9">>)
MalformedTexts == {TextDeleteSuperscript, TextUnbalanced, TextEmptyBody,
                   TextDeleteNoSuchNote}
MalformedTargets == {<<"SUP2">>, <<"9">>, <<WS>>, NICK}

\* generated texts for the sanitizer: every concatenation of 1..MaxFragments of
\* "[Profile", ":x]", "[Profile:x]", "[ProfileDelete:1]", "[ProfileDelete", "]",
\* " ", "t"
Fragments == {<<"[", "Profile">>, <<":", "x", "]">>, Block(KwProfile, <<"x">>),
              Block(KwProfileDelete, <<"1">>), <<"[", "Profile", "Delete">>,
              <<"]">>, <<WS>>, <<"t">>}

RECURSIVE Concatenations(_)
Concatenations(n) ==
    IF n = 0 THEN {<<>>}
    ELSE LET shorter == Concatenations(n - 1)
         IN shorter \cup {f \o t : f \in Fragments, t \in shorter}

SanitizerTexts == Concatenations(MaxFragments) \ {<<>>}

\* ----------------------------------------------------------------- actions
\* _get_session_id
_get_session_id(origin) == IF session_based THEN origin ELSE None

NotesCount(p) == IF NOTES \in DOMAIN p THEN Len(SplitNotes(p[NOTES])) ELSE 0

\* the model follows a run while every profile stores at most MaxStored notes
WithinBounds(m) == \A k \in DOMAIN m.user_data : NotesCount(m.user_data[k]) <= MaxStored

SetManager(m) ==
    /\ WithinBounds(m)
    /\ user_data' = m.user_data
    /\ shape' = m.shape
    /\ disk' = m.disk
    /\ ret' = m.ret

Init ==
    /\ max_notes_count \in 0..MaxNotesCfg
    /\ session_based \in BOOLEAN
    /\ disk \in {DiskMissing, DiskUnparsable, DiskList, DiskNull, DiskDict(EmptyDict)}
    /\ user_data = LoadItems(disk)
    /\ shape = LoadShape(disk)
    /\ ret = "none"
    /\ now = 0
    /\ completion_text = <<>>
    /\ plain_text = <<>>

\* a call of SoulMapManager.update_field
UpdateFieldCall(user_id, origin, field, value) ==
    /\ SetManager(update_field(Manager, user_id, field, value, _get_session_id(origin),
                               max_notes_count, now))
    /\ UNCHANGED <<max_notes_count, session_based, now, completion_text, plain_text>>

\* delete_my_field: the command strips its argument and calls delete_field
delete_my_field(user_id, origin, field) ==
    /\ SetManager(delete_field(Manager, user_id, Strip(field), _get_session_id(origin), now))
    /\ UNCHANGED <<max_notes_count, session_based, now, completion_text, plain_text>>

\* clear_my_profile
clear_my_profile(user_id, origin) ==
    /\ SetManager(clear_profile(Manager, user_id, _get_session_id(origin)))
    /\ UNCHANGED <<max_notes_count, session_based, now, completion_text, plain_text>>

\* on_llm_resp with resp.completion_text = text and one Plain segment holding text
on_llm_resp(user_id, origin, text) ==
    /\ text # <<>>
    /\ LET m == ApplyOps([Manager EXCEPT !.ret = "handled"], user_id,
                         _get_session_id(origin), HandlerOps(text), max_notes_count, now)
           raised == m.ret = "raised"
       IN /\ SetManager([m EXCEPT !.ret = IF raised THEN "raised" ELSE "handled"])
          /\ completion_text' = IF raised THEN text ELSE CleanOnce(text)
          /\ plain_text' = IF raised THEN text ELSE CleanOnce(text)
    /\ UNCHANGED <<max_notes_count, session_based, now>>

\* on_decorating_result: the late pass over the Plain segment
on_decorating_result ==
    /\ plain_text # <<>>
    /\ plain_text' = CleanOnce(plain_text)
    /\ UNCHANGED <<max_notes_count, session_based, user_data, shape, disk, ret, now,
                   completion_text>>

\* a second passes on the wall clock
Tick ==
    /\ now < MaxTime
    /\ now' = now + 1
    /\ UNCHANGED <<max_notes_count, session_based, user_data, shape, disk, ret,
                   completion_text, plain_text>>

Next ==
    \/ \E u \in UserIds, o \in Origins, f \in FieldInputs :
          \E v \in ValuesFor(f) : UpdateFieldCall(u, o, f, v)
    \/ \E u \in UserIds, o \in Origins, f \in DeleteTargets : delete_my_field(u, o, f)
    \/ \E u \in UserIds, o \in Origins : clear_my_profile(u, o)
    \/ \E u \in UserIds, o \in Origins, t \in Texts : on_llm_resp(u, o, t)
    \/ on_decorating_result
    \/ Tick

Spec == Init /\ [][Next]_vars

\* ------------------------------------------------- the sanitizer on its own
\* one generated response: resp.completion_text holds the generated text until
\* on_llm_resp has handled it (ret = "none"), then the late pass runs
InitSanitizer ==
    /\ max_notes_count \in 0..MaxNotesCfg
    /\ session_based \in BOOLEAN
    /\ disk \in {DiskMissing, DiskDict(EmptyDict)}
    /\ user_data = LoadItems(disk)
    /\ shape = LoadShape(disk)
    /\ ret = "none"
    /\ now = 0
    /\ completion_text \in SanitizerTexts
    /\ plain_text = completion_text

HandleResponse ==
    /\ ret = "none"
    /\ \E u \in UserIds, o \in Origins : on_llm_resp(u, o, completion_text)

NextSanitizer ==
    \/ HandleResponse
    \/ ret = "handled" /\ on_decorating_result

SpecSanitizer == InitSanitizer /\ [][NextSanitizer]_vars

\* ------------------------------------------------- a crash during _save_data
\* the returns after which _save_data has run
SavedOutcomes == {"updated", "deleted_field", "deleted_index", "deleted_fuzzy", "cleared"}

\* the document an interrupted _save_data leaves: the old one (before open),
\* an empty or partly written one (open(path, "w") truncates, json.dump writes
\* piece by piece; neither parses), or the new one (all of it was written)
InterruptedSave(old, new) == {old, DiskUnparsable, new}

\* the process dies inside the _save_data of a manager call whose result is m;
\* user_data then holds the Store that was being saved
CrashDuringSave(m) ==
    /\ ret # "crashed"
    /\ m.ret \in SavedOutcomes
    /\ WithinBounds(m)
    /\ user_data' = m.user_data
    /\ shape' = m.shape
    /\ disk' \in InterruptedSave(disk, m.disk)
    /\ ret' = "crashed"
    /\ UNCHANGED <<max_notes_count, session_based, now, completion_text, plain_text>>

\* the plugin is started again: SoulMapManager.__init__ loads the document
Restart ==
    /\ ret = "crashed"
    /\ user_data' = LoadItems(disk)
    /\ shape' = LoadShape(disk)
    /\ ret' = "none"
    /\ completion_text' = <<>>
    /\ plain_text' = <<>>
    /\ UNCHANGED <<max_notes_count, session_based, disk, now>>

NextCrash ==
    \/ ret # "crashed" /\ Next
    \/ \E u \in UserIds, o \in Origins, f \in FieldInputs : \E v \in ValuesFor(f) :
          CrashDuringSave(update_field(Manager, u, f, v, _get_session_id(o),
                                       max_notes_count, now))
    \/ \E u \in UserIds, o \in Origins, f \in DeleteTargets :
          CrashDuringSave(delete_field(Manager, u, Strip(f), _get_session_id(o), now))
    \/ \E u \in UserIds, o \in Origins :
          CrashDuringSave(clear_profile(Manager, u, _get_session_id(o)))
    \/ Restart

SpecCrash == Init /\ [][NextCrash]_vars

\* ------------------------------------------- a caller of export_all_profiles
\* export_all_profiles: self.user_data.copy() is a new dict whose values are the
\* Store's own profile objects; [obj |-> k] is the object stored under key k
export_all_profiles(m) == [k \in DOMAIN m.user_data |-> [obj |-> k]]

\* what the caller does with the returned dict e: bind a key to a new profile,
\* drop a key, or set or delete a field of one of the returned profiles
StoreKeys == UserIds \cup {_get_user_key(u, o) : u \in UserIds, o \in Origins}

ExportMutations ==
    [kind : {"set_key", "del_key"}, key : StoreKeys \cup {<<"new">>},
     field : {NICK}, value : {<<"z">>}]
    \cup [kind : {"set_field", "del_field"}, key : StoreKeys,
          field : {NICK}, value : {<<"z">>}]

\* the manager after the caller's mutation: e[key] = {} and del e[key] touch the
\* caller's dict only, e[key][field] = value and del e[key][field] touch the
\* object e[key] refers to
MutateExported(m, e, mut) ==
    IF mut.kind \in {"set_key", "del_key"} THEN m
    ELSE LET k == e[mut.key].obj
             p == m.user_data[k]
         IN [m EXCEPT !.user_data =
                SetItem(m.user_data, k,
                        IF mut.kind = "set_field" THEN SetItem(p, mut.field, mut.value)
                        ELSE DelItem(p, mut.field))]

\* a caller obtains export_all_profiles() from a Store and mutates what it got
CallerMutatesExport(mut) ==
    /\ shape = "dict"
    /\ LET e == export_all_profiles(Manager)
       IN /\ mut.kind # "set_key" => mut.key \in DOMAIN e
          /\ mut.kind = "del_field" => mut.field \in DOMAIN user_data[e[mut.key].obj]
          /\ SetManager([MutateExported(Manager, e, mut) EXCEPT !.ret = "exported"])
    /\ UNCHANGED <<max_notes_count, session_based, now, completion_text, plain_text>>

NextExport ==
    \/ Next
    \/ \E mut \in ExportMutations : CallerMutatesExport(mut)

SpecExport == Init /\ [][NextExport]_vars

\* ------------------------------------- handler runs for two senders at once
\* The handlers are coroutines on the host's event loop.  on_llm_resp holds no
\* await and the commands call the manager before their only yield, so the loop
\* switches between runs only from one whole handler body to another: the
\* interleavings are the orders in which the runs of the senders are taken.
HostUsers == {<<"u">>, <<"w">>}

HostFields == {NICK, NOTES}
HostValuesFor(field) == IF field = NOTES THEN {<<"a">>} ELSE {<<WS, "x", WS>>}
HostDeleteTargets == {NICK, <<"1">>}
HostTexts == {TextScenario, TextDeleteFuzzyIndex}

NextConcurrent ==
    \/ \E u \in HostUsers, o \in Origins, f \in HostFields :
          \E v \in HostValuesFor(f) : UpdateFieldCall(u, o, f, v)
    \/ \E u \in HostUsers, o \in Origins, f \in HostDeleteTargets : delete_my_field(u, o, f)
    \/ \E u \in HostUsers, o \in Origins : clear_my_profile(u, o)
    \/ \E u \in HostUsers, o \in Origins, t \in HostTexts : on_llm_resp(u, o, t)

SpecConcurrent == Init /\ [][NextConcurrent]_vars

\* ------------------------------------------- the directive protocol alone
\* generated texts are handled one after the other; commands clear the profile
NextProtocol ==
    \/ \E u \in UserIds, o \in Origins, t \in ProtocolTexts : on_llm_resp(u, o, t)
    \/ \E u \in UserIds, o \in Origins : clear_my_profile(u, o)
    \/ on_decorating_result
    \/ Tick

SpecProtocol == Init /\ [][NextProtocol]_vars

\* ------------------------------------------------------- malformed input
\* notes updates, then generated texts and delete targets that are malformed
NextMalformed ==
    \/ \E u \in UserIds, o \in Origins, v \in NoteValues : UpdateFieldCall(u, o, NOTES, v)
    \/ \E u \in UserIds, o \in Origins, f \in MalformedTargets : delete_my_field(u, o, f)
    \/ \E u \in UserIds, o \in Origins, t \in MalformedTexts : on_llm_resp(u, o, t)
    \/ on_decorating_result

SpecMalformed == Init /\ [][NextMalformed]_vars

\* ------------------------------------------ identities that share a key
\* senders "x_u" and "u", message origins "g" and "g_x": with session_based on,
\* f"{session_id}_{user_id}" is "g_x_u" for ("g", "x_u") and for ("g_x", "u")
IdentityUsers == {<<"x", "_", "u">>, <<"u">>}
IdentityOrigins == {<<"g">>, <<"g", "_", "x">>}

IdentityValuesFor(field) == IF field = NOTES THEN {<<"a">>} ELSE {<<WS, "x", WS>>}

NextIdentities ==
    \/ \E u \in IdentityUsers, o \in IdentityOrigins, f \in {NICK, NOTES} :
          \E v \in IdentityValuesFor(f) : UpdateFieldCall(u, o, f, v)
    \/ \E u \in IdentityUsers, o \in IdentityOrigins : delete_my_field(u, o, NICK)
    \/ \E u \in IdentityUsers, o \in IdentityOrigins : clear_my_profile(u, o)

SpecIdentities == Init /\ [][NextIdentities]_vars

\* ===================================================================
\* Properties
\* ===================================================================
\* the notes list a profile holds
NotesOf(p) == IF NOTES \in DOMAIN p THEN SplitNotes(p[NOTES]) ELSE <<>>

\* the profile stored under the key of (u, o) in manager state m
ProfileIn(m, u, o) == get_user_profile(m, u, _get_session_id(o))

\* C1: after any sequence of notes updates, the stored notes value of every
\* profile splits into at most max_notes_count entries, for every configured
\* max_notes_count >= 0.
C1_NotesWithinMax ==
    \A k \in DOMAIN user_data : NotesCount(user_data[k]) <= max_notes_count

NoDuplicates(seq) == \A i, j \in 1..Len(seq) : seq[i] = seq[j] => i = j

\* C2: once update_field(notes, v) has been called, calling it again with the
\* same v leaves the stored notes value as it is, and the stored notes hold no
\* entry twice.
C2_NotesResubmitIdempotent ==
    [][\A u \in UserIds, o \in Origins, v \in NoteValues :
          (ret' = "updated" /\ UpdateFieldCall(u, o, NOTES, v)) =>
              LET again == update_field(Manager', u, NOTES, v, _get_session_id(o),
                                        max_notes_count, now)
              IN /\ ProfileIn(again, u, o)[NOTES] = ProfileIn(Manager', u, o)[NOTES]
                 /\ NoDuplicates(NotesOf(ProfileIn(again, u, o)))]_vars

\* C3: the sanitizer is idempotent: the cleaned text on_llm_resp stored is left
\* unchanged by another pass of block_pattern.sub('', .).strip().
C3_StripIdempotent ==
    ret = "handled" => CleanOnce(completion_text) = completion_text

\* C4: the cleaned text on_llm_resp stored as resp.completion_text holds no
\* update block and no delete block.
C4_NoBlockLeft ==
    ret = "handled" =>
        profile_pattern(completion_text) = <<>> /\ delete_pattern(completion_text) = <<>>

\* the targets of a delete block's body, in submission order
TargetsOf(match) == StripNonEmpty(ReSplit(match, TargetSeps))

\* a non-numeric target of the block removes the note: the notes field is
\* deleted by name, or the target is a fragment of the note
HitByOther(targets, p, note) ==
    \E i \in 1..Len(targets) :
        /\ ~IsDigit(targets[i])
        /\ targets[i] = NOTES \/ (targets[i] \notin DOMAIN p /\ IsSubstring(targets[i], note))

\* C5: when one delete block carries several targets, every numeric target N
\* that is a valid index removes the note that stood at position N before the
\* block was processed, and a note no target names stays, whatever other
\* targets the block carries.
C5_NumericTargetsKeepTheirIndex ==
    [][\A u \in UserIds, o \in Origins, t \in Texts :
          LET p == ProfileIn(Manager, u, o)
              before == NotesOf(p)
              after == NotesOf(ProfileIn(Manager', u, o))
              targets == TargetsOf(delete_pattern(t)[1])
              numeric == {IntOf(targets[i]) : i \in {j \in 1..Len(targets) : IsDigit(targets[j])}}
          IN (/\ ret' = "handled"
              /\ shape = "dict"
              /\ profile_pattern(t) = <<>>
              /\ Len(delete_pattern(t)) = 1
              /\ NoDuplicates(before)
              /\ on_llm_resp(u, o, t)) =>
                 \A i \in 1..Len(before) :
                     /\ i \in numeric => ~Contains(after, before[i])
                     /\ (i \notin numeric /\ ~HitByOther(targets, p, before[i]))
                            => Contains(after, before[i])]_vars

\* C6: on a Store (a key-to-profile mapping), update_field of an allowed field
\* other than notes with value v, then get_user_profile, gives a profile whose
\* value for that field is v with leading and trailing whitespace removed.
C6_UpdateThenGet ==
    [][\A u \in UserIds, o \in Origins, f \in FieldInputs : \A v \in ValuesFor(f) :
          (/\ Contains(allowed_fields, f)
           /\ f # NOTES
           /\ shape = "dict"
           /\ UpdateFieldCall(u, o, f, v)) =>
              /\ ret' = "updated"
              /\ f \in DOMAIN ProfileIn(Manager', u, o)
              /\ ProfileIn(Manager', u, o)[f] = Strip(v)]_vars

\* C6 happens: an update stored "x" for nickname, from the value " x "
C6_Witness ==
    /\ ret = "updated"
    /\ \E k \in DOMAIN user_data :
          NICK \in DOMAIN user_data[k] /\ user_data[k][NICK] = <<"x">>

\* C7: update_field with a field outside the allow-list fails and changes
\* nothing: user_data is as before (no key created, no field or _last_updated
\* written) and the document is not rewritten.
C7_DisallowedUpdateMutatesNothing ==
    [][\A u \in UserIds, o \in Origins, f \in FieldInputs : \A v \in ValuesFor(f) :
          (~Contains(allowed_fields, f) /\ UpdateFieldCall(u, o, f, v)) =>
              /\ ret' = "not_allowed"
              /\ user_data' = user_data
              /\ shape' = shape
              /\ disk' = disk]_vars

\* C7 happens: a refused update left the store without any key and the unreadable
\* document as it was
C7_Witness ==
    ret = "not_allowed" /\ user_data = EmptyDict /\ disk = DiskUnparsable

DeleteFailures == {"no_profile", "index_missing", "not_found"}

\* C8: a delete_field call that fails leaves user_data (fields, notes,
\* _last_updated) and the document exactly as they were.
C8_FailedDeleteMutatesNothing ==
    [][\A u \in UserIds, o \in Origins, f \in DeleteTargets :
          (ret' \in DeleteFailures /\ delete_my_field(u, o, f)) =>
              /\ user_data' = user_data
              /\ shape' = shape
              /\ disk' = disk]_vars

\* C8 happens: an out-of-range index was refused after the clock moved on, and the
\* profile still carries its notes and its old stamp
C8_Witness ==
    /\ ret = "index_missing"
    /\ now = 1
    /\ \E k \in DOMAIN user_data :
          /\ NotesCount(user_data[k]) >= 1
          /\ user_data[k][LAST_UPDATED] = Timestamp(0)

\* delete_field by index n, n-1, ..., 1, one call each: every call succeeds,
\* leaves one note less and never an empty notes value, and the last one leaves
\* the notes field absent
RECURSIVE DeletesDescending(_, _, _, _)
DeletesDescending(m, u, o, n) ==
    IF n = 0 THEN NOTES \notin DOMAIN ProfileIn(m, u, o)
    ELSE LET m1 == delete_field(m, u, <<ToString(n)>>, _get_session_id(o), now)
             p1 == ProfileIn(m1, u, o)
         IN /\ m1.ret = "deleted_index"
            /\ NotesCount(p1) = n - 1
            /\ NOTES \in DOMAIN p1 => p1[NOTES] # <<>>
            /\ DeletesDescending(m1, u, o, n - 1)

\* C9: from a profile holding n >= 1 notes, deleting the notes one per call by
\* index n, n-1, ..., 1 succeeds every time and ends with the notes field
\* absent, never with an empty notes value.
C9_DeleteAllByIndex ==
    \A u \in UserIds, o \in Origins :
        NotesCount(ProfileIn(Manager, u, o)) >= 1 =>
            DeletesDescending(Manager, u, o, NotesCount(ProfileIn(Manager, u, o)))

\* C9 happens: the last note was deleted by index and the profile is still
\* there, without a notes field
C9_Witness ==
    /\ ret = "deleted_index"
    /\ \E k \in DOMAIN user_data : NOTES \notin DOMAIN user_data[k]

\* C10: whatever document was loaded (missing, unparsable, or parsable with a
\* top level that is no key-to-profile mapping), the loaded value is a Store and
\* no later update, delete or clear raises.
C10_LoadNeverBreaksStore ==
    ret # "raised"

\* the entries of a stored notes value as they stand between the separators
RawEntries(p) == IF NOTES \in DOMAIN p THEN ReSplit(p[NOTES], NoteSeps) ELSE <<>>

\* C11: starting from an empty Store, after any sequence of updates and deletes
\* every entry of every stored notes value is at most 20 characters long,
\* whatever the length of the entries that came in.
C11_NoteEntriesWithinLength ==
    \A k \in DOMAIN user_data :
        \A i \in 1..Len(RawEntries(user_data[k])) :
            Len(RawEntries(user_data[k])[i]) <= NoteMaxLen

\* C11 happens: a 21-character entry came in and is stored cut to 20 characters
C11_Witness ==
    /\ ret = "updated"
    /\ \E k \in DOMAIN user_data :
          \E i \in 1..Len(RawEntries(user_data[k])) :
              RawEntries(user_data[k])[i] = Prefix(LongNote, NoteMaxLen)

\* the last n entries of a list (all of it when it has fewer)
LastN(seq, n) == IF n >= Len(seq) THEN seq ELSE SubSeq(seq, Len(seq) - n + 1, Len(seq))

\* C12: a notes update evicts oldest-first: the notes stored by
\* update_field(notes, v) are exactly the last max_notes_count entries of the
\* existing entries followed, in order, by the entries of v not already present.
C12_EvictsOldestFirst ==
    [][\A u \in UserIds, o \in Origins, v \in NoteValues :
          (ret' = "updated" /\ UpdateFieldCall(u, o, NOTES, v)) =>
              LET existing == NotesOf(ProfileIn(Manager, u, o))
                  incoming == TruncateAll(SplitNotes(v))
              IN ProfileIn(Manager', u, o)[NOTES] =
                     JoinNotes(LastN(AppendNew(existing, incoming), max_notes_count))]_vars

\* C13: a crash at any point during a save cannot make the next load return a
\* Store other than the one persisted before that save or the one being saved:
\* what _load_data reads from the document the crash left is one of the two.
C13_CrashKeepsOldOrNew ==
    [][(ret' = "crashed" /\ ret # "crashed") =>
          /\ LoadShape(disk') = "dict"
          /\ LoadItems(disk') \in {LoadItems(disk), user_data'}]_vars

\* C14: export_all_profiles returns a defensive copy: whatever a caller does to
\* the returned value, a field set, changed or removed inside a returned
\* profile included, the Store's own state stays as it was.
C14_ExportIsDefensiveCopy ==
    [][\A mut \in ExportMutations :
          (ret' = "exported" /\ CallerMutatesExport(mut)) => user_data' = user_data]_vars

\* C15: exact-match deletion removes the field entirely: when the target equals
\* a key present in the profile (an allowed field, the notes field or
\* _last_updated) and delete_field reports success, the key is no longer in the
\* profile.
C15_ExactDeleteRemovesKey ==
    [][\A u \in UserIds, o \in Origins, f \in DeleteTargets :
          (/\ ret' \in SavedOutcomes
           /\ f \in DOMAIN ProfileIn(Manager, u, o)
           /\ delete_my_field(u, o, f)) =>
              f \notin DOMAIN ProfileIn(Manager', u, o)]_vars

\* the manager calls of a text when its blocks, update and delete blocks alike,
\* are taken one by one from left to right
RECURSIVE OpsInOrderOfAppearance(_, _)
OpsInOrderOfAppearance(s, i) ==
    IF i > Len(s) THEN <<>>
    ELSE LET cu == CloseAt(s, i, KwProfile)
             cd == CloseAt(s, i, KwProfileDelete)
             bu == SubSeq(s, i + Len(KwProfile) + 2, cu - 1)
             bd == SubSeq(s, i + Len(KwProfileDelete) + 2, cd - 1)
         IN IF cu > 0 /\ bu # <<>>
            THEN UpdateOps(FindPairs(BodyGroup(bu), 1)) \o OpsInOrderOfAppearance(s, cu + 1)
            ELSE IF cd > 0 /\ bd # <<>>
            THEN BlockDeleteOps(BodyGroup(bd)) \o OpsInOrderOfAppearance(s, cd + 1)
            ELSE OpsInOrderOfAppearance(s, i + 1)

\* C16: all directive blocks of one generated text are processed in order of
\* appearance: the profile after on_llm_resp is the profile obtained by applying
\* the blocks one by one from left to right, so an update block for f that
\* follows a delete block for f leaves f set.
C16_BlocksInOrderOfAppearance ==
    [][\A u \in UserIds, o \in Origins, t \in ProtocolTexts :
          (/\ ret' = "handled"
           /\ shape = "dict"
           /\ on_llm_resp(u, o, t)) =>
              ProfileIn(Manager', u, o) =
                  ProfileIn(ApplyOps(Manager, u, _get_session_id(o),
                                     OpsInOrderOfAppearance(t, 1), max_notes_count, now),
                            u, o)]_vars

\* a step is a handler run for sender u
HandlerRun(u, o) ==
    \/ \E f \in HostFields : \E v \in HostValuesFor(f) : UpdateFieldCall(u, o, f, v)
    \/ \E f \in HostDeleteTargets : delete_my_field(u, o, f)
    \/ clear_my_profile(u, o)
    \/ \E t \in HostTexts : on_llm_resp(u, o, t)

C18_NoDuplicateNotes ==
    \A k \in DOMAIN user_data : NoDuplicates(NotesOf(user_data[k]))

\* C19: the core operations are total on malformed input: on a Store, for every
\* generated text on_llm_resp finishes without raising and stores the sanitized
\* text, and every delete target, a target that isdigit() takes for a number
\* included, ends in a successful deletion or a NotFound failure.
C19_TotalOnMalformedInput ==
    [][\A u \in UserIds, o \in Origins :
          shape = "dict" =>
              /\ \A t \in MalformedTexts :
                    on_llm_resp(u, o, t) =>
                        ret' = "handled" /\ completion_text' = CleanOnce(t)
              /\ \A f \in MalformedTargets :
                    delete_my_field(u, o, f) => ret' \in SavedOutcomes \cup DeleteFailures]_vars

\* C20: every field of the allow-list other than notes can be set through an
\* update directive: for a non-empty value v without "," and "]", processing
\* "[Profile: f=v]" ends with profile[f] equal to v trimmed.
C20_AllowedFieldsSettable ==
    [][\A u \in UserIds, o \in Origins, f \in SettableFields, v \in DirectiveValues :
          (shape = "dict" /\ on_llm_resp(u, o, DirectiveFor(f, v))) =>
              /\ f \in DOMAIN ProfileIn(Manager', u, o)
              /\ ProfileIn(Manager', u, o)[f] = Strip(v)]_vars

\* the (session_id, user_id) pair of an event
Identity(u, o) == <<_get_session_id(o), u>>

\* a step is a manager call made for the event of sender u from origin o
IdentityCall(u, o) ==
    \/ \E f \in {NICK, NOTES} : \E v \in IdentityValuesFor(f) : UpdateFieldCall(u, o, f, v)
    \/ delete_my_field(u, o, NICK)
    \/ clear_my_profile(u, o)

\* C21: profiles are independent per identity: two different
\* (session_id, user_id) pairs never resolve to the same profile key, and an
\* update, delete or clear issued for one identity leaves the profile read for
\* every other identity unchanged.
C21_IdentitiesIndependent ==
    [][\A u1 \in IdentityUsers, o1 \in IdentityOrigins,
          u2 \in IdentityUsers, o2 \in IdentityOrigins :
          (/\ Identity(u1, o1) # Identity(u2, o2)
           /\ shape = "dict"
           /\ IdentityCall(u1, o1)) =>
              /\ _get_user_key(u1, _get_session_id(o1)) # _get_user_key(u2, _get_session_id(o2))
              /\ ProfileIn(Manager', u2, o2) = ProfileIn(Manager, u2, o2)]_vars

====
